---- MODULE Spec2Model ----
(***************************************************************************)
(* Model of the QTL manifest preparation tool (qtlformer).                 *)
(*                                                                         *)
(* Strings are sequences of one-character strings, so that split("/"),     *)
(* "/".join, f-string concatenation and regular-expression matching are    *)
(* computed character by character as the code computes them.  The only    *)
(* longer fragments are the two literal artifact suffixes.                 *)
(*                                                                         *)
(* The model follows src/tools/src/qtlformer/__init__.py (the local-path   *)
(* variant).  src/bin/src/qtlformer/__init__.py is the object-store        *)
(* variant of the same classes; it differs in the backend handle and in    *)
(* not normalising the artifact paths to a 3-segment suffix.               *)
(***************************************************************************)
EXTENDS Integers, Sequences, FiniteSets, TLC

VARIABLES
    storage,      \* the storage backend: [ls : path -> listing, files : set of paths]
    phase,        \* position of the caller: "idle", "mapping", "built", "failed"
    study_paths,  \* from_path: the root listing
    task,         \* the futures of th.map, one per child path, in submission order
    obj,          \* heap of the QTLStudy objects created by the tasks (by task index)
    calls,        \* per task: the QTLDataset.from_path calls made by get_datasets
    result,       \* from_path: the list being filled from the map iterator
    manifest,     \* the QTLManifest returned (<<>> while there is none)
    overtaken,    \* history: a study task completed before an earlier-listed one
    second,       \* which build this is: "none" (first), "same", "pruned"
    first,        \* the studies and records of the first build (<<>> before it ends)
    name,         \* input of the identifier-validator harness
    outcome       \* result of the identifier-validator harness

vars == <<storage, phase, study_paths, task, obj, calls, result, manifest,
          overtaken, second, first, name, outcome>>

-----------------------------------------------------------------------------
(* Bounds *)

MaxStudies == 2
MaxDatasets == 2
ExtraChildren == 1
MaxNameLen == 5

-----------------------------------------------------------------------------
(* Values *)

None == <<>>
Some(x) == <<x>>

max_workers == 5

NameError == "DatasetOrStudyNameError"

Raise(e) == [ok |-> FALSE, exc |-> e]
Return(v) == [ok |-> TRUE, value |-> v]

DigitChars == <<"0", "1", "2", "3", "4", "5", "6", "7", "8", "9">>

IsDigit(c) == \E k \in DOMAIN DigitChars : DigitChars[k] = c

STUDY_PATTERN == <<"^", "Q", "T", "S", "\\d+", "$">>
DATASET_PATTERN == <<"^", "Q", "T", "D", "\\d+", "$">>

\* the two literal suffixes of line 79 and line 80; they hold no "/" and are
\* never matched against a pattern, so each is kept as one fragment
CS_SUFFIX == <<".credible_sets.parquet">>
LBF_SUFFIX == <<".lbf_variable.parquet">>

RECORD_KEYS == <<"study_id", "dataset_id", "susie_cs_path", "susie_lbf_path">>

-----------------------------------------------------------------------------
(* str.split("/") and "/".join *)

RECURSIVE SplitFrom(_, _, _)
SplitFrom(s, k, cur) ==
    IF k > Len(s) THEN <<cur>>
    ELSE IF s[k] = "/" THEN <<cur>> \o SplitFrom(s, k + 1, <<>>)
    ELSE SplitFrom(s, k + 1, Append(cur, s[k]))

Split(s) == SplitFrom(s, 1, <<>>)

RECURSIVE Join(_)
Join(parts) ==
    IF parts = <<>> THEN <<>>
    ELSE IF Len(parts) = 1 THEN parts[1]
    ELSE parts[1] \o <<"/">> \o Join(Tail(parts))

\* parts[-1]
LastOf(parts) == parts[Len(parts)]

\* parts[-3:]
Last3(parts) ==
    IF Len(parts) <= 3 THEN parts
    ELSE SubSeq(parts, Len(parts) - 2, Len(parts))

-----------------------------------------------------------------------------
(* re.compile(pattern).fullmatch(name) for the token sequences above:      *)
(* MatchEnds is the set of positions at which a match of pat[k..] that     *)
(* starts at pos can end.  "^" holds at the start of the string, "$" at    *)
(* its end or right before a final newline, "\d+" takes one or more        *)
(* digits, any other token is a literal character.                         *)

RECURSIVE MatchEnds(_, _, _, _)
MatchEnds(pat, k, s, pos) ==
    IF k > Len(pat) THEN {pos}
    ELSE IF pat[k] = "^" THEN
        IF pos = 1 THEN MatchEnds(pat, k + 1, s, pos) ELSE {}
    ELSE IF pat[k] = "$" THEN
        IF pos = Len(s) + 1 \/ (pos = Len(s) /\ s[pos] = "\n")
        THEN MatchEnds(pat, k + 1, s, pos) ELSE {}
    ELSE IF pat[k] = "\\d+" THEN
        UNION { MatchEnds(pat, k + 1, s, e) :
                  e \in { q \in (pos + 1)..(Len(s) + 1) :
                            \A j \in pos..(q - 1) : IsDigit(s[j]) } }
    ELSE IF pos <= Len(s) /\ s[pos] = pat[k]
        THEN MatchEnds(pat, k + 1, s, pos + 1) ELSE {}

\* variant: re.match, a match anchored at the start that may end anywhere
PrefixMatch(pattern, s) == MatchEnds(pattern, 1, s, 1) # {}

fullmatch(pattern, s) == (Len(s) + 1) \in MatchEnds(pattern, 1, s, 1)

validate_name(n, pattern) ==
    IF n = <<>> THEN Raise(NameError)
    ELSE IF ~fullmatch(pattern, n) THEN Raise(NameError)
    ELSE Return(n)

QTLDataset_validate_name(n) == validate_name(n, DATASET_PATTERN)

QTLStudy_validate_name(n) == validate_name(n, STUDY_PATTERN)

-----------------------------------------------------------------------------
(* The storage backend (fsspec): listing and existence, read-only *)

\* fs.ls(path): the child paths of a directory, in the backend's order
Ls(path) == IF path \in DOMAIN storage.ls THEN storage.ls[path] ELSE <<>>

\* fs.exists(path)
Exists(path) == path \in storage.files

-----------------------------------------------------------------------------
(* QTLDataset *)

QTLDataset(id, cs, lbf) == [id |-> id, susie_cs_path |-> cs, susie_lbf_path |-> lbf]

\* variant: both existence queries are always issued
CheckBoth(cs, lbf) ==
    [missing |-> ~Exists(cs) \/ ~Exists(lbf), checks |-> <<cs, lbf>>]

\* variant: `and` in place of `or`
CheckEither(cs, lbf) ==
    [missing |-> ~Exists(cs) /\ ~Exists(lbf),
     checks |-> IF ~Exists(cs) THEN <<cs, lbf>> ELSE <<cs>>]

\* Line 86, `not fs.exists(cs) or not fs.exists(lbf)`, evaluated left to right
\* with Python's short-circuit `or`: its value and the existence queries issued.
MissingSusieFiles(cs, lbf) ==
    IF ~Exists(cs) THEN [missing |-> TRUE, checks |-> <<cs>>]
    ELSE [missing |-> ~Exists(lbf), checks |-> <<cs, lbf>>]

\* QTLDataset.from_path: the value returned, with a record of the call
\* (whether it reached the artifact check, and the existence queries it made).
QTLDataset_from_path(path) ==
    LET v == QTLDataset_validate_name(LastOf(Split(path)))
    IN  IF ~v.ok
        THEN [path |-> path, reached |-> FALSE, checks |-> <<>>, ret |-> None]
        ELSE
          LET dataset_id == v.value
              susie_cs_path == path \o <<"/">> \o dataset_id \o CS_SUFFIX
              susie_lbf_path == path \o <<"/">> \o dataset_id \o LBF_SUFFIX
              m == MissingSusieFiles(susie_cs_path, susie_lbf_path)
          IN  IF m.missing
              THEN [path |-> path, reached |-> TRUE, checks |-> m.checks,
                    ret |-> None]
              ELSE [path |-> path, reached |-> TRUE, checks |-> m.checks,
                    ret |-> Some(QTLDataset(dataset_id,
                                            Join(Last3(Split(susie_cs_path))),
                                            Join(Last3(Split(susie_lbf_path)))))]

-----------------------------------------------------------------------------
(* QTLStudy *)

QTLStudy(id, path, datasets) == [id |-> id, path |-> path, datasets |-> datasets]

\* QTLStudy.from_path: raises on an invalid name, else a study without datasets
QTLStudy_from_path(path) ==
    LET v == QTLStudy_validate_name(LastOf(Split(path)))
    IN  IF ~v.ok THEN Raise(v.exc)
        ELSE Return(QTLStudy(v.value, path, <<>>))

\* the QTLDataset.from_path calls of get_datasets, in listing order
DatasetCalls(path) ==
    LET dataset_paths == Ls(path)
    IN  [k \in 1..Len(dataset_paths) |-> QTLDataset_from_path(dataset_paths[k])]

RECURSIVE NotNone(_)
NotNone(xs) ==
    IF xs = <<>> THEN <<>>
    ELSE IF Head(xs) = None THEN NotNone(Tail(xs))
    ELSE <<Head(xs)[1]>> \o NotNone(Tail(xs))

\* get_datasets: `[ds for ds in datasets if ds is not None]`
KeepDatasets(xs) == NotNone(xs)

\* QTLStudy.get_datasets: the datasets assigned to self.datasets
get_datasets(study) ==
    LET cs == DatasetCalls(study.path)
    IN  KeepDatasets([k \in 1..Len(cs) |-> cs[k].ret])

-----------------------------------------------------------------------------
(* QTLManifest *)

Row(study, dataset) ==
    [study_id |-> study.id, dataset_id |-> dataset.id,
     susie_cs_path |-> dataset.susie_cs_path,
     susie_lbf_path |-> dataset.susie_lbf_path]

\* variant: the inner loop of transform leaving after its first dataset
FirstRowOnly(study) ==
    [k \in 1..(IF study.datasets = <<>> THEN 0 ELSE 1) |->
       Row(study, study.datasets[k])]

\* the inner loop of transform: one record per dataset of the study
StudyRows(study) ==
    [k \in 1..Len(study.datasets) |-> Row(study, study.datasets[k])]

RECURSIVE Records(_)
Records(studies) ==
    IF studies = <<>> THEN <<>>
    ELSE StudyRows(Head(studies)) \o Records(Tail(studies))

\* pd.DataFrame.from_records on a list of dicts: the columns are the keys of
\* the dicts in insertion order; an empty list gives a frame with no columns.
DataFrame_from_records(records) ==
    [columns |-> IF records = <<>> THEN <<>> ELSE RECORD_KEYS, rows |-> records]

\* QTLManifest.transform
transform(studies) == DataFrame_from_records(Records(studies))

-----------------------------------------------------------------------------
(* The trees the builds run over *)

ROOT == <<"/", "r">>

Digit(i) == DigitChars[(i % 10) + 1]

\* name of the i-th child of the root: a study directory, or an entry whose
\* name is no study identifier (bad-name, lower case, trailing character)
StudyDirName(i, kind) ==
    IF kind = "study" THEN <<"Q", "T", "S", Digit(i)>>
    ELSE IF i = 1 THEN <<"b", "a", "d", "-", "n", "a", "m", "e">>
    ELSE IF i % 2 = 0 THEN <<"q", "t", "s", Digit(i)>>
    ELSE <<"Q", "T", "S", Digit(i), "x">>

\* name of the k-th child of a study directory
DatasetDirName(k, kind) ==
    IF kind = "bad" THEN <<"Q", "T", "D", Digit(k), "x">>
    ELSE <<"Q", "T", "D", Digit(k)>>

ChildPath(dir, n) == dir \o <<"/">> \o n

StudyKinds == {"study", "bad"}
DatasetKinds == {"both", "cs_only", "lbf_only", "bad"}

SeqsUpTo(S, n) == UNION {[1..m -> S] : m \in 0..n}

\* the files below one study directory whose children have the kinds `shape`
FilesOf(sp, shape) ==
    UNION { LET n == DatasetDirName(k, shape[k])
                dp == ChildPath(sp, n)
            IN  (IF shape[k] \in {"both", "cs_only", "bad"}
                 THEN {ChildPath(dp, n \o CS_SUFFIX)} ELSE {})
                \cup
                (IF shape[k] \in {"both", "lbf_only", "bad"}
                 THEN {ChildPath(dp, n \o LBF_SUFFIX)} ELSE {})
          : k \in 1..Len(shape) }

\* a root whose i-th child has kind kinds[i]; every child directory holds
\* the datasets described by `shape`
Tree(kinds, shape) ==
    LET child == [i \in 1..Len(kinds) |-> ChildPath(ROOT, StudyDirName(i, kinds[i]))]
        dirs == {child[i] : i \in 1..Len(kinds)}
    IN  [ls |-> [p \in {ROOT} \cup dirs |->
                   IF p = ROOT THEN child
                   ELSE [k \in 1..Len(shape) |->
                           ChildPath(p, DatasetDirName(k, shape[k]))]],
         files |-> UNION {FilesOf(d, shape) : d \in dirs}]

SmallTrees ==
    {Tree(kinds, shape) : kinds \in SeqsUpTo(StudyKinds, MaxStudies),
                          shape \in SeqsUpTo(DatasetKinds, MaxDatasets)}

\* more children than the pool has workers
WideTree ==
    Tree([i \in 1..(max_workers + ExtraChildren) |->
            IF i = 2 THEN "bad" ELSE "study"], <<"both">>)

EmptyStorage == [ls |-> <<>>, files |-> {}]

-----------------------------------------------------------------------------
(* QTLManifest.from_path: the fan-out over the root listing *)

Tasks == DOMAIN task

IsRunning(t) == t.pc \in {"from_path", "get_datasets"}

Running(tk) == {i \in DOMAIN tk : IsRunning(tk[i])}

\* variant: a pool without a width
SpawnAlways(tk) == TRUE

\* ThreadPoolExecutor(max_workers=5): a queued item starts only on a free worker
WorkerAvailable(tk) == Cardinality(Running(tk)) < max_workers

\* the work queue is first-in first-out
HeadOfQueue(tk, i) ==
    /\ tk[i].pc = "queued"
    /\ \A j \in DOMAIN tk : j < i => tk[j].pc # "queued"

\* variant: no handler
Propagate(r) == r

\* _prepare_study_for_path: `except DatasetOrStudyNameError: return None`
ExceptNameError(r) ==
    IF ~r.ok /\ r.exc = NameError THEN Return(None) ELSE r

\* variant: results taken in completion order
AsCompleted(res, tk) ==
    {i \in DOMAIN tk : tk[i].pc = "done" /\ \A k \in DOMAIN res : res[k] # i}

\* variant: the next future is read without waiting for it
NoWait(res, tk) == {i \in DOMAIN tk : i = Len(res) + 1}

\* the futures the iterator of th.map may hand out next: it waits for the
\* futures in submission order
NextResult(res, tk) ==
    {i \in DOMAIN tk : i = Len(res) + 1 /\ tk[i].pc = "done"}

\* `[study for study in result if study is not None]`, as references to the
\* study objects of the tasks
StudyRefs(res, tk) == NotNone([k \in DOMAIN res |-> tk[res[k]].ret])

Deref(refs, heap) == [k \in DOMAIN refs |-> heap[refs[k]][1]]

\* the studies of the manifest as they are now
ManifestStudies == Deref(manifest[1].studies, obj)

Done(ret, exc) == [pc |-> "done", ret |-> ret, exc |-> exc]

Init ==
    /\ storage \in SmallTrees \cup {WideTree}
    /\ phase = "idle"
    /\ study_paths = <<>>
    /\ task = <<>>
    /\ obj = <<>>
    /\ calls = <<>>
    /\ result = <<>>
    /\ manifest = None
    /\ overtaken = FALSE
    /\ second = "none"
    /\ first = None
    /\ name = <<>>
    /\ outcome = None

\* from_path up to th.map: list the root and submit one task per child path
Submit ==
    /\ phase = "idle"
    /\ phase' = "mapping"
    /\ study_paths' = Ls(ROOT)
    /\ task' = [i \in 1..Len(Ls(ROOT)) |-> [pc |-> "queued", ret |-> None, exc |-> None]]
    /\ obj' = [i \in 1..Len(Ls(ROOT)) |-> None]
    /\ calls' = [i \in 1..Len(Ls(ROOT)) |-> <<>>]
    /\ result' = <<>>
    /\ UNCHANGED <<storage, manifest, overtaken, second, first, name, outcome>>

\* a worker takes the next item of the queue
StartTask(i) ==
    /\ HeadOfQueue(task, i)
    /\ WorkerAvailable(task)
    /\ task' = [task EXCEPT ![i].pc = "from_path"]
    /\ UNCHANGED <<storage, phase, study_paths, obj, calls, result, manifest,
                   overtaken, second, first, name, outcome>>

\* _prepare_study_for_path(p): QTLStudy.from_path(p), inside the try
RunFromPath(i) ==
    /\ task[i].pc = "from_path"
    /\ LET r == QTLStudy_from_path(study_paths[i])
       IN  IF r.ok
           THEN /\ obj' = [obj EXCEPT ![i] = Some(r.value)]
                /\ task' = [task EXCEPT ![i].pc = "get_datasets"]
           ELSE LET h == ExceptNameError(r)
                IN  /\ task' = [task EXCEPT ![i] =
                                  IF h.ok THEN Done(h.value, None)
                                  ELSE Done(None, Some(h.exc))]
                    /\ obj' = obj
    /\ UNCHANGED <<storage, phase, study_paths, calls, result, manifest,
                   overtaken, second, first, name, outcome>>

\* _prepare_study_for_path(p): .get_datasets() on the new study, and return
RunGetDatasets(i) ==
    /\ task[i].pc = "get_datasets"
    /\ obj' = [obj EXCEPT ![i] =
                 Some([obj[i][1] EXCEPT !.datasets = get_datasets(obj[i][1])])]
    /\ calls' = [calls EXCEPT ![i] = DatasetCalls(obj[i][1].path)]
    /\ task' = [task EXCEPT ![i] = Done(Some(i), None)]
    /\ overtaken' = (overtaken \/
                     \E j \in Tasks : j < i /\ task[j].pc # "done"
                                      /\ QTLStudy_from_path(study_paths[j]).ok)
    /\ UNCHANGED <<storage, phase, study_paths, result, manifest, second,
                   first, name, outcome>>

\* list(th.map(...)): take the next result; a task's exception is re-raised
Collect ==
    /\ phase = "mapping"
    /\ Len(result) < Len(study_paths)
    /\ \E i \in NextResult(result, task) :
         IF task[i].exc # None
         THEN /\ phase' = "failed"
              /\ result' = result
         ELSE /\ phase' = phase
              /\ result' = Append(result, i)
    /\ UNCHANGED <<storage, study_paths, task, obj, calls, manifest, overtaken,
                   second, first, name, outcome>>

\* filter the results and construct QTLManifest(studies); __post_init__
\* derives self.df
Construct ==
    /\ phase = "mapping"
    /\ Len(result) = Len(study_paths)
    /\ LET studies == StudyRefs(result, task)
           m == [studies |-> studies, df |-> transform(Deref(studies, obj))]
       IN  /\ manifest' = Some(m)
           /\ first' = IF second = "none"
                       THEN Some([studies |-> Deref(studies, obj), df |-> m.df,
                                  overtaken |-> overtaken])
                       ELSE first
    /\ phase' = "built"
    /\ UNCHANGED <<storage, study_paths, task, obj, calls, result, overtaken,
                   second, name, outcome>>

Reset ==
    /\ phase' = "idle"
    /\ study_paths' = <<>>
    /\ task' = <<>>
    /\ obj' = <<>>
    /\ calls' = <<>>
    /\ result' = <<>>
    /\ manifest' = None
    /\ overtaken' = FALSE

\* the caller builds a second manifest from the unchanged tree
Rebuild ==
    /\ phase = "built"
    /\ second = "none"
    /\ \A i \in Tasks : task[i].pc = "done"
    /\ second' = "same"
    /\ Reset
    /\ UNCHANGED <<storage, first, name, outcome>>

Remove(xs, j) == [k \in 1..(Len(xs) - 1) |-> IF k < j THEN xs[k] ELSE xs[k + 1]]

\* the environment removes a root child that is no study directory, and the
\* caller builds a second manifest
PruneAndRebuild(j) ==
    /\ phase = "built"
    /\ second = "none"
    /\ \A i \in Tasks : task[i].pc = "done"
    /\ j \in DOMAIN Ls(ROOT)
    /\ ~QTLStudy_from_path(Ls(ROOT)[j]).ok
    /\ storage' = [storage EXCEPT !.ls[ROOT] = Remove(Ls(ROOT), j)]
    /\ second' = "pruned"
    /\ Reset
    /\ UNCHANGED <<first, name, outcome>>

Next ==
    \/ Submit
    \/ \E i \in Tasks : StartTask(i)
    \/ \E i \in Tasks : RunFromPath(i)
    \/ \E i \in Tasks : RunGetDatasets(i)
    \/ Collect
    \/ Construct
    \/ Rebuild
    \/ \E j \in DOMAIN Ls(ROOT) : PruneAndRebuild(j)

Spec == Init /\ [][Next]_vars

-----------------------------------------------------------------------------
(* The identifier validator on arbitrary names *)

Alphabet == {"Q", "T", "D", "S", "1", "q", "\n"}

Names == SeqsUpTo(Alphabet, MaxNameLen)

InitValidate ==
    /\ storage = EmptyStorage
    /\ phase = "idle"
    /\ study_paths = <<>>
    /\ task = <<>>
    /\ obj = <<>>
    /\ calls = <<>>
    /\ result = <<>>
    /\ manifest = None
    /\ overtaken = FALSE
    /\ second = "none"
    /\ first = None
    /\ name \in Names
    /\ outcome = None

\* QTLDataset._validate_name(name)
ValidateDatasetName ==
    /\ outcome = None
    /\ outcome' = Some([pattern |-> DATASET_PATTERN, prefix |-> <<"Q", "T", "D">>,
                        res |-> QTLDataset_validate_name(name)])
    /\ UNCHANGED <<storage, phase, study_paths, task, obj, calls, result,
                   manifest, overtaken, second, first, name>>

\* QTLStudy._validate_name(name)
ValidateStudyName ==
    /\ outcome = None
    /\ outcome' = Some([pattern |-> STUDY_PATTERN, prefix |-> <<"Q", "T", "S">>,
                        res |-> QTLStudy_validate_name(name)])
    /\ UNCHANGED <<storage, phase, study_paths, task, obj, calls, result,
                   manifest, overtaken, second, first, name>>

NextValidate == ValidateDatasetName \/ ValidateStudyName

SpecValidate == InitValidate /\ [][NextValidate]_vars

-----------------------------------------------------------------------------
(* Identifiers, stated directly *)

\* prefix followed by one or more digits, and nothing else
IsId(n, prefix) ==
    /\ Len(n) > Len(prefix)
    /\ SubSeq(n, 1, Len(prefix)) = prefix
    /\ \A k \in (Len(prefix) + 1)..Len(n) : IsDigit(n[k])

IsStudyId(n) == IsId(n, <<"Q", "T", "S">>)
IsDatasetId(n) == IsId(n, <<"Q", "T", "D">>)

\* C6: validate_name returns the name unchanged exactly when it is the
\* prefix (QTD resp. QTS) followed by one or more digits and nothing else;
\* for every other name, the empty one included, it raises the naming error.
C6_ValidateExact ==
    outcome # None =>
        LET o == outcome[1]
        IN  IF IsId(name, o.prefix)
            THEN o.res = Return(name)
            ELSE o.res = Raise(NameError)

\* a name with a matching prefix and a trailing newline has been rejected
C6_Witness ==
    /\ outcome # None
    /\ name = <<"Q", "T", "D", "1", "\n">>
    /\ outcome[1].prefix = <<"Q", "T", "D">>
    /\ ~outcome[1].res.ok

-----------------------------------------------------------------------------
(* Claims about the manifest builder *)

Built == phase = "built" /\ manifest # None

\* the artifact paths the dataset resolver derives for a dataset directory
CsPathOf(path) == path \o <<"/">> \o LastOf(Split(path)) \o CS_SUFFIX
LbfPathOf(path) == path \o <<"/">> \o LastOf(Split(path)) \o LBF_SUFFIX

\* the dataset resolver calls made so far in this build
AllCalls == UNION {{calls[i][k] : k \in DOMAIN calls[i]} : i \in Tasks}

\* C1: the studies of the manifest are in the relative order of their paths
\* in the root listing, whatever the completion order of the tasks.
C1_ListingOrder ==
    Built =>
        LET st == ManifestStudies
        IN  \A a, b \in DOMAIN st :
              a < b => \E i, j \in DOMAIN study_paths :
                          /\ i < j
                          /\ study_paths[i] = st[a].path
                          /\ study_paths[j] = st[b].path

\* a manifest of several studies, built after a later-listed study task
\* completed before an earlier-listed one
C1_Witness ==
    /\ Built
    /\ overtaken
    /\ Len(manifest[1].studies) >= 2


\* C2: a root child whose name is no study identifier never makes the build
\* fail with the naming error: the error stays inside that child's task, the
\* child is not among the studies, and the studies and records are those of
\* a build over the listing without that child.
C2_InvalidChildIsolated ==
    /\ phase # "failed"
    /\ \A i \in Tasks : task[i].exc = None
    /\ Built =>
         \A i \in DOMAIN study_paths :
           ~IsStudyId(LastOf(Split(study_paths[i]))) =>
             \A k \in DOMAIN ManifestStudies :
               ManifestStudies[k].path # study_paths[i]
    /\ (Built /\ second = "pruned") =>
         /\ ManifestStudies = first[1].studies
         /\ manifest[1].df = first[1].df

\* a second build, over the listing without one invalid child, has given the
\* studies and records the siblings had in the first one
C2_Witness ==
    /\ Built
    /\ second = "pruned"
    /\ Len(first[1].studies) >= 1
    /\ Len(first[1].df.rows) >= 2
    /\ Len(storage.ls[ROOT]) >= 1

\* C3: the dataset resolver returns a dataset only if the name is a dataset
\* identifier and both {path}/{id}.credible_sets.parquet and
\* {path}/{id}.lbf_variable.parquet exist; the dataset then has its id and
\* both paths.  So every dataset of every study of a manifest has both
\* artifacts in the storage.
C3_BothArtifactsConfirmed ==
    /\ \A c \in AllCalls :
         c.ret # None =>
           /\ IsDatasetId(LastOf(Split(c.path)))
           /\ CsPathOf(c.path) \in storage.files
           /\ LbfPathOf(c.path) \in storage.files
           /\ c.ret[1].id = LastOf(Split(c.path))
           /\ c.ret[1].susie_cs_path = Join(Last3(Split(CsPathOf(c.path))))
           /\ c.ret[1].susie_lbf_path = Join(Last3(Split(LbfPathOf(c.path))))
    /\ manifest # None =>
         \A k \in DOMAIN ManifestStudies :
           \A d \in DOMAIN ManifestStudies[k].datasets :
             LET dir == ChildPath(ManifestStudies[k].path,
                                  ManifestStudies[k].datasets[d].id)
             IN  /\ CsPathOf(dir) \in storage.files
                 /\ LbfPathOf(dir) \in storage.files

\* a manifest exists; one resolver call found only the credible-sets
\* artifact and returned nothing, another found both and returned a dataset
C3_Witness ==
    /\ Built
    /\ \E c \in AllCalls :
         /\ c.reached
         /\ c.ret = None
         /\ CsPathOf(c.path) \in storage.files
         /\ LbfPathOf(c.path) \notin storage.files
    /\ \E c \in AllCalls : c.ret # None

RECURSIVE DatasetCount(_)
DatasetCount(studies) ==
    IF studies = <<>> THEN 0
    ELSE Len(Head(studies).datasets) + DatasetCount(Tail(studies))

\* the validly named study directories of the root listing
ValidStudyDirs ==
    {i \in DOMAIN Ls(ROOT) : IsStudyId(LastOf(Split(Ls(ROOT)[i])))}

\* the children of a directory that are validly named dataset directories
\* with both artifacts present
GoodDatasetDirs(dir) ==
    {k \in DOMAIN Ls(dir) :
        /\ IsDatasetId(LastOf(Split(Ls(dir)[k])))
        /\ CsPathOf(Ls(dir)[k]) \in storage.files
        /\ LbfPathOf(Ls(dir)[k]) \in storage.files}

\* every valid study directory holds exactly m good dataset directories
UniformTree(m) ==
    \A i \in ValidStudyDirs : Cardinality(GoodDatasetDirs(Ls(ROOT)[i])) = m

\* C4: the records are one per (study, dataset) pair, in the order of the
\* studies and, within a study, of its datasets, each with the ids and
\* paths of its pair; with N valid study directories of M good datasets
\* each there are N studies and N * M records.
C4_OneRowPerPair ==
    Built =>
        LET st == ManifestStudies
            rows == manifest[1].df.rows
        IN  /\ Len(rows) = DatasetCount(st)
            /\ \A k \in DOMAIN st : \A d \in DOMAIN st[k].datasets :
                 LET r == rows[DatasetCount(SubSeq(st, 1, k - 1)) + d]
                 IN  /\ r.study_id = st[k].id
                     /\ r.dataset_id = st[k].datasets[d].id
                     /\ r.susie_cs_path = st[k].datasets[d].susie_cs_path
                     /\ r.susie_lbf_path = st[k].datasets[d].susie_lbf_path
            /\ \A m \in 0..(MaxDatasets + 1) :
                 UniformTree(m) =>
                   /\ Len(st) = Cardinality(ValidStudyDirs)
                   /\ Len(rows) = Cardinality(ValidStudyDirs) * m

\* two studies of two good datasets each have given four records
C4_Witness ==
    /\ Built
    /\ Cardinality(ValidStudyDirs) = 2
    /\ UniformTree(2)
    /\ Len(manifest[1].df.rows) = 4

\* C5 (as claimed): the records of every manifest, one without rows
\* included, have the four columns study_id, dataset_id,
\* credible_sets_path, lbf_variable_path, in this order.
C5_FourColumns ==
    manifest # None =>
        manifest[1].df.columns =
            <<"study_id", "dataset_id", "credible_sets_path", "lbf_variable_path">>

\* C7: a second build from the unchanged tree gives the studies and the
\* records of the first, whatever the interleavings of the two builds.
C7_SameTreeSameManifest ==
    (Built /\ second = "same") =>
        /\ ManifestStudies = first[1].studies
        /\ manifest[1].df = first[1].df

\* two builds of the same tree ended, one with a study task overtaking an
\* earlier one and one without
C7_Witness ==
    /\ Built
    /\ second = "same"
    /\ overtaken # first[1].overtaken
    /\ Len(manifest[1].df.rows) >= 2

\* C8: while a manifest exists no study task is queued or running, every
\* study of the manifest has its datasets populated, and the records are
\* those of the studies as they are.
C8_ManifestAfterAllTasks ==
    manifest # None =>
        /\ \A i \in Tasks : task[i].pc = "done"
        /\ \A k \in DOMAIN manifest[1].studies :
             LET i == manifest[1].studies[k]
             IN  /\ task[i].pc = "done"
                 /\ Len(obj[i][1].datasets) =
                      Cardinality(GoodDatasetDirs(obj[i][1].path))
        /\ manifest[1].df = transform(ManifestStudies)

\* a manifest of populated studies exists after out-of-order completion
C8_Witness ==
    /\ manifest # None
    /\ overtaken
    /\ \E k \in DOMAIN ManifestStudies : Len(ManifestStudies[k].datasets) >= 1

\* C9: at most 5 study tasks are executing at any moment.
C9_AtMostFiveRunning == Cardinality(Running(task)) <= 5

\* five tasks are executing and a sixth child waits in the queue
C9_Witness ==
    /\ Cardinality(Running(task)) = 5
    /\ \E i \in Tasks : task[i].pc = "queued"

\* C10 (as claimed): every resolver call that reaches the artifact check
\* makes exactly two existence checks.
C10_TwoChecks ==
    \A c \in AllCalls : c.reached => Len(c.checks) = 2

\* C10 (amended): a resolver call that reaches the artifact check queries
\* the credible-sets path, and the lbf-variable path only if the
\* credible-sets artifact exists: two checks then, one otherwise.
C10_SecondCheckOnlyIfFirstFound ==
    \A c \in AllCalls :
        c.reached =>
            c.checks = IF CsPathOf(c.path) \in storage.files
                       THEN <<CsPathOf(c.path), LbfPathOf(c.path)>>
                       ELSE <<CsPathOf(c.path)>>

\* one call stopped after a missing credible-sets artifact, another made
\* both checks
C10_Witness ==
    /\ \E c \in AllCalls : c.reached /\ Len(c.checks) = 1
    /\ \E c \in AllCalls : c.reached /\ Len(c.checks) = 2

====
